---- MODULE Spec2Model ----
(***************************************************************************)
(* Model of the slug-indexed paste store of src/app.py: create_paste,      *)
(* get_paste and list_recent running on concurrent request threads against *)
(* one SQLite table `pastes`.                                              *)
(*                                                                         *)
(* Python strings are sequences of one-character strings; Python's None is *)
(* the value None below, which is not such a sequence.  A row's created_at *)
(* is what CURRENT_TIMESTAMP (the wall clock, in seconds) reads at the     *)
(* INSERT; nothing orders two readings of the wall clock.                  *)
(***************************************************************************)
EXTENDS Integers, Sequences, FiniteSets, TLC

\* ---------------------------------------------------------------- bounds
MaxCalls   == 3      \* calls of the store's operations in one behaviour
MaxTime    == 1      \* CURRENT_TIMESTAMP reads 0..MaxTime
MaxLimit   == 1      \* list_recent is called with limit in -1..MaxLimit

\* -------------------------------------------------- program constants
\* SLUG_ALPHABET and SLUG_LENGTH are configuration constants of app.py
\* (62 characters, length 6); the model runs the same code over a slug
\* space small enough to be filled.
SLUG_ALPHABET == {"a", "b"}
SLUG_LENGTH   == 1
MaxAttempts   == 10  \* for _ in range(10)

None == <<"None">>
\* line 62: what create_paste returns for empty content
EmptyContentResult == None
\* an sqlite3.OperationalError leaving create_paste: the call returns no value
Raised == <<"OperationalError">>
\* get_paste's None, the "not found" signal
NotFound == [found |-> FALSE]
\* the characters str.strip() removes, the space standing for all of them
Whitespace == {" "}

\* the request threads of ThreadingHTTPServer that run the operations
Threads == {"t1", "t2"}

\* The arguments request threads pass to create_paste: a whitespace-only and
\* a padded title; an empty, a whitespace-only and a padded content.
TitleArgs   == {<<" ">>, <<"t", " ">>}
ContentArgs == {<<>>, <<" ", " ">>, <<" ", "c", " ">>}

VARIABLES
    schema,      \* the tables of the database file
    pastes,      \* the table: sequence of rows in rowid order
    pc,          \* per thread: position inside create_paste
    title,       \* per thread: local `title`
    content,     \* per thread: local `content`
    attempt,     \* per thread: INSERT statements executed by the current call
    slug,        \* per thread: local `slug`
    result,      \* per thread: value returned by the last finished call
    outcome,     \* per thread: which return statement produced `result`
    args,        \* per thread: the arguments of the call in progress
    connected,   \* per thread: the call has run sqlite3.connect
    inserted,    \* per thread: rows the current/last call has inserted
    returned,    \* history: <<slug, title arg, content arg>> of every slug returned
    calls,       \* number of calls started
    resp         \* the response of the last get_paste / list_recent call

vars == <<schema, pastes, pc, title, content, attempt, slug, result, outcome,
          args, connected, inserted, returned, calls, resp>>

\* ------------------------------------------------------------ str.strip
RECURSIVE LStrip(_)
LStrip(s) ==
    IF s # <<>> /\ Head(s) \in Whitespace THEN LStrip(Tail(s)) ELSE s

RECURSIVE RStrip(_)
RStrip(s) ==
    IF s # <<>> /\ s[Len(s)] \in Whitespace
    THEN RStrip(SubSeq(s, 1, Len(s) - 1))
    ELSE s

Strip(s) == RStrip(LStrip(s))

\* `x or ""`
OrEmpty(x) == IF x = None \/ x = <<>> THEN <<>> ELSE x

\* content = (content or ""), the strip() forgotten
StripContentNoStrip(c) == OrEmpty(c)

\* content = (content or "").strip()
StripContent(c) == Strip(OrEmpty(c))

\* title = (title or "").strip(), the `or None` forgotten
StripTitleNoNone(t) == Strip(OrEmpty(t))

\* title = (title or "").strip() or None
StripTitle(t) == IF Strip(OrEmpty(t)) = <<>> THEN None ELSE Strip(OrEmpty(t))

\* --------------------------------------------------------- _generate_slug
\* every value "".join(secrets.choice(SLUG_ALPHABET) for _ in range(SLUG_LENGTH))
\* can take
GenerateSlug == [1..SLUG_LENGTH -> SLUG_ALPHABET]

\* ------------------------------------------------------------- the table
\* the column declared without UNIQUE: no INSERT is refused
IntegrityErrorNoUnique(s) == FALSE

\* slug TEXT NOT NULL UNIQUE: the INSERT raises sqlite3.IntegrityError
IntegrityError(s) == \E i \in 1..Len(pastes) : pastes[i].slug = s

\* INSERT INTO pastes (slug, title, content) VALUES (?, ?, ?); id is
\* AUTOINCREMENT and created_at DEFAULT CURRENT_TIMESTAMP
Insert(s, t, c, ts) ==
    Append(pastes, [id |-> Len(pastes) + 1, slug |-> s, title |-> t,
                    content |-> c, created_at |-> ts])

\* a row read before its content column is filled
PastePartial(row) == [slug |-> row.slug, title |-> row.title,
                      content |-> None, created_at |-> row.created_at]

\* Paste(slug=row["slug"], title=..., content=..., created_at=...)
Paste(row) == [slug |-> row.slug, title |-> row.title,
               content |-> row.content, created_at |-> row.created_at]

\* ------------------------------------------------------------ init_db / Init
\* the table the CREATE TABLE statement declares
PastesTable == [name |-> "pastes", notnull |-> {"slug", "content"},
                unique |-> {"id", "slug"}]

\* a database file sqlite3.connect has just created
NoDb == [schema |-> {}, rows |-> <<>>]

\* CREATE TABLE without IF NOT EXISTS, on a file that is cleared first
init_dbRecreate(db) == [schema |-> {PastesTable}, rows |-> <<>>]

\* CREATE TABLE IF NOT EXISTS pastes (...): a no-op when a table of that name
\* exists, an empty table otherwise
init_db(db) ==
    IF \E tb \in db.schema : tb.name = PastesTable.name
    THEN db
    ELSE [schema |-> db.schema \cup {PastesTable}, rows |-> <<>>]

\* init_db called again while the server runs
InitDb ==
    /\ calls < MaxCalls
    /\ calls' = calls + 1
    /\ schema' = init_db([schema |-> schema, rows |-> pastes]).schema
    /\ pastes' = init_db([schema |-> schema, rows |-> pastes]).rows
    /\ resp' = [op |-> "init"]
    /\ UNCHANGED <<pc, title, content, attempt, slug, result, outcome,
                   args, connected, inserted, returned>>

\* run_server has called init_db() on a new file and serves
Init ==
    /\ schema = init_db(NoDb).schema
    /\ pastes = init_db(NoDb).rows
    /\ pc = [p \in Threads |-> "idle"]
    /\ title = [p \in Threads |-> None]
    /\ content = [p \in Threads |-> None]
    /\ attempt = [p \in Threads |-> 0]
    /\ slug = [p \in Threads |-> None]
    /\ result = [p \in Threads |-> None]
    /\ outcome = [p \in Threads |-> "none"]
    /\ args = [p \in Threads |-> <<None, None>>]
    /\ connected = [p \in Threads |-> FALSE]
    /\ inserted = [p \in Threads |-> 0]
    /\ returned = <<>>
    /\ calls = 0
    /\ resp = [op |-> "none"]

\* ------------------------------------------------------------ create_paste
\* create_paste with the connection opened before the content check
CallConnectFirst(p, t, c) ==
    /\ pc[p] \in {"idle", "done"}
    /\ calls < MaxCalls
    /\ calls' = calls + 1
    /\ inserted' = [inserted EXCEPT ![p] = 0]
    /\ content' = [content EXCEPT ![p] =
                       IF StripContent(c) = <<>> THEN None ELSE StripContent(c)]
    /\ attempt' = [attempt EXCEPT ![p] = 0]
    /\ slug' = [slug EXCEPT ![p] = None]
    /\ connected' = [connected EXCEPT ![p] = TRUE]
    /\ result' = [result EXCEPT ![p] = None]
    /\ IF StripContent(c) = <<>>
       THEN /\ pc' = [pc EXCEPT ![p] = "done"]
            /\ outcome' = [outcome EXCEPT ![p] = "EmptyContent"]
            /\ title' = [title EXCEPT ![p] = None]
            /\ args' = [args EXCEPT ![p] = <<None, None>>]
       ELSE /\ pc' = [pc EXCEPT ![p] = "loop"]
            /\ outcome' = [outcome EXCEPT ![p] = "running"]
            /\ title' = [title EXCEPT ![p] = StripTitle(t)]
            /\ args' = [args EXCEPT ![p] = <<t, c>>]
    /\ UNCHANGED <<schema, pastes, returned, resp>>

\* Lines 59-65: the call, the content check and, past it, the connection.
Call(p, t, c) ==
    /\ pc[p] \in {"idle", "done"}
    /\ calls < MaxCalls
    /\ calls' = calls + 1
    /\ UNCHANGED <<schema, pastes, returned, resp>>
    /\ inserted' = [inserted EXCEPT ![p] = 0]
    /\ content' = [content EXCEPT ![p] =
                       IF StripContent(c) = <<>> THEN None ELSE StripContent(c)]
    /\ attempt' = [attempt EXCEPT ![p] = 0]
    /\ slug' = [slug EXCEPT ![p] = None]
    /\ IF StripContent(c) = <<>>
       THEN /\ pc' = [pc EXCEPT ![p] = "done"]
            /\ result' = [result EXCEPT ![p] = EmptyContentResult]
            /\ outcome' = [outcome EXCEPT ![p] = "EmptyContent"]
            /\ title' = [title EXCEPT ![p] = None]
            /\ args' = [args EXCEPT ![p] = <<None, None>>]
            /\ connected' = [connected EXCEPT ![p] = FALSE]
       ELSE /\ pc' = [pc EXCEPT ![p] = "loop"]
            /\ result' = [result EXCEPT ![p] = None]
            /\ outcome' = [outcome EXCEPT ![p] = "running"]
            /\ title' = [title EXCEPT ![p] = StripTitle(t)]
            /\ args' = [args EXCEPT ![p] = <<t, c>>]
            /\ connected' = [connected EXCEPT ![p] = TRUE]

\* the first candidate of a call is refused whether stored or not
AttemptSkipFirst(p, s, t) ==
    /\ pc[p] = "loop"
    /\ attempt[p] < MaxAttempts
    /\ s \in GenerateSlug
    /\ t \in 0..MaxTime
    /\ attempt' = [attempt EXCEPT ![p] = attempt[p] + 1]
    /\ IF IntegrityError(s) \/ attempt[p] = 0
       THEN /\ t = 0
            /\ UNCHANGED <<pastes, pc, slug, inserted>>
       ELSE /\ pastes' = Insert(s, title[p], content[p], t)
            /\ pc' = [pc EXCEPT ![p] = "return"]
            /\ slug' = [slug EXCEPT ![p] = s]
            /\ inserted' = [inserted EXCEPT ![p] = inserted[p] + 1]
    /\ UNCHANGED <<schema, title, content, result, outcome, args, connected,
                   returned, calls, resp>>

\* the loop written `while True`: a refused candidate is not counted
AttemptUncounted(p, s, t) ==
    /\ pc[p] = "loop"
    /\ attempt[p] < MaxAttempts
    /\ s \in GenerateSlug
    /\ t \in 0..MaxTime
    /\ IF IntegrityError(s)
       THEN /\ t = 0
            /\ UNCHANGED <<pastes, pc, slug, inserted, attempt>>
       ELSE /\ attempt' = [attempt EXCEPT ![p] = attempt[p] + 1]
            /\ pastes' = Insert(s, title[p], content[p], t)
            /\ pc' = [pc EXCEPT ![p] = "return"]
            /\ slug' = [slug EXCEPT ![p] = s]
            /\ inserted' = [inserted EXCEPT ![p] = inserted[p] + 1]
    /\ UNCHANGED <<schema, title, content, result, outcome, args, connected,
                   returned, calls, resp>>

\* the statement written INSERT OR REPLACE: a taken slug's row is rewritten
AttemptOrReplace(p, s, t) ==
    /\ pc[p] = "loop"
    /\ attempt[p] < MaxAttempts
    /\ s \in GenerateSlug
    /\ t \in 0..MaxTime
    /\ attempt' = [attempt EXCEPT ![p] = attempt[p] + 1]
    /\ pastes' =
          IF IntegrityError(s)
          THEN [i \in 1..Len(pastes) |->
                  IF pastes[i].slug = s
                  THEN [pastes[i] EXCEPT !.title = title[p],
                                         !.content = content[p],
                                         !.created_at = t]
                  ELSE pastes[i]]
          ELSE Insert(s, title[p], content[p], t)
    /\ pc' = [pc EXCEPT ![p] = "return"]
    /\ slug' = [slug EXCEPT ![p] = s]
    /\ inserted' = [inserted EXCEPT ![p] = inserted[p] + 1]
    /\ UNCHANGED <<schema, title, content, result, outcome, args, connected,
                   returned, calls, resp>>

\* Lines 66-76: one pass of the loop body with candidate s, the wall clock
\* reading t.  The INSERT and its commit are one write transaction of SQLite,
\* which no other connection interleaves; a refused candidate is discarded.
Attempt(p, s, t) ==
    /\ pc[p] = "loop"
    /\ attempt[p] < MaxAttempts
    /\ s \in GenerateSlug
    /\ t \in 0..MaxTime
    /\ attempt' = [attempt EXCEPT ![p] = attempt[p] + 1]
    /\ IF IntegrityError(s)
       THEN /\ t = 0
            /\ UNCHANGED <<pastes, pc, slug, inserted>>
       ELSE /\ pastes' = Insert(s, title[p], content[p], t)
            /\ pc' = [pc EXCEPT ![p] = "return"]
            /\ slug' = [slug EXCEPT ![p] = s]
            /\ inserted' = [inserted EXCEPT ![p] = inserted[p] + 1]
    /\ UNCHANGED <<schema, title, content, result, outcome, args, connected,
                   returned, calls, resp>>

\* Line 74: return slug
ReturnSlug(p) ==
    /\ pc[p] = "return"
    /\ pc' = [pc EXCEPT ![p] = "done"]
    /\ result' = [result EXCEPT ![p] = slug[p]]
    /\ outcome' = [outcome EXCEPT ![p] = "slug"]
    /\ returned' = Append(returned, <<slug[p], args[p][1], args[p][2]>>)
    /\ title' = [title EXCEPT ![p] = None]
    /\ content' = [content EXCEPT ![p] = None]
    /\ slug' = [slug EXCEPT ![p] = None]
    /\ args' = [args EXCEPT ![p] = <<None, None>>]
    /\ attempt' = [attempt EXCEPT ![p] = 0]
    /\ UNCHANGED <<schema, pastes, connected, inserted, calls, resp>>

\* `return slug` written after the loop: the last candidate is returned
ReturnExhaustedSlug(p) ==
    /\ pc[p] = "loop"
    /\ attempt[p] = MaxAttempts
    /\ pc' = [pc EXCEPT ![p] = "done"]
    /\ \E s \in GenerateSlug :
          /\ result' = [result EXCEPT ![p] = s]
          /\ returned' = Append(returned, <<s, args[p][1], args[p][2]>>)
    /\ outcome' = [outcome EXCEPT ![p] = "slug"]
    /\ title' = [title EXCEPT ![p] = None]
    /\ content' = [content EXCEPT ![p] = None]
    /\ slug' = [slug EXCEPT ![p] = None]
    /\ args' = [args EXCEPT ![p] = <<None, None>>]
    /\ UNCHANGED <<schema, pastes, attempt,
                   connected, inserted, calls, resp>>

\* range(10) written as range(9)
ReturnExhaustedEarly(p) ==
    /\ pc[p] = "loop"
    /\ attempt[p] = MaxAttempts - 1
    /\ pc' = [pc EXCEPT ![p] = "done"]
    /\ result' = [result EXCEPT ![p] = None]
    /\ outcome' = [outcome EXCEPT ![p] = "Exhausted"]
    /\ title' = [title EXCEPT ![p] = None]
    /\ content' = [content EXCEPT ![p] = None]
    /\ slug' = [slug EXCEPT ![p] = None]
    /\ args' = [args EXCEPT ![p] = <<None, None>>]
    /\ UNCHANGED <<schema, pastes, attempt,
                   connected, inserted, returned, calls, resp>>

\* Line 77: the loop ran out; return None
ReturnExhausted(p) ==
    /\ pc[p] = "loop"
    /\ attempt[p] = MaxAttempts
    /\ pc' = [pc EXCEPT ![p] = "done"]
    /\ result' = [result EXCEPT ![p] = None]
    /\ outcome' = [outcome EXCEPT ![p] = "Exhausted"]
    /\ title' = [title EXCEPT ![p] = None]
    /\ content' = [content EXCEPT ![p] = None]
    /\ slug' = [slug EXCEPT ![p] = None]
    /\ args' = [args EXCEPT ![p] = <<None, None>>]
    /\ UNCHANGED <<schema, pastes, attempt,
                   connected, inserted, returned, calls, resp>>

\* ---------------------------------------------------------- storage faults
\* the loop written `except sqlite3.Error: continue`: the fault is retried
FaultRetried(p) ==
    /\ pc[p] = "loop"
    /\ attempt[p] < MaxAttempts
    /\ attempt' = [attempt EXCEPT ![p] = attempt[p] + 1]
    /\ UNCHANGED <<schema, pastes, pc, title, content, slug, result, outcome, args,
                   connected, inserted, returned, calls, resp>>

\* Lines 69-76: conn.execute or conn.commit raises an sqlite3 error that is
\* no IntegrityError (database locked, disk I/O error).  `except
\* sqlite3.IntegrityError` does not catch it: the with block rolls the
\* transaction back and the exception leaves create_paste.
Fault(p) ==
    /\ pc[p] = "loop"
    /\ attempt[p] < MaxAttempts
    /\ attempt' = [attempt EXCEPT ![p] = attempt[p] + 1]
    /\ pc' = [pc EXCEPT ![p] = "done"]
    /\ result' = [result EXCEPT ![p] = Raised]
    /\ outcome' = [outcome EXCEPT ![p] = "OperationalError"]
    /\ title' = [title EXCEPT ![p] = None]
    /\ content' = [content EXCEPT ![p] = None]
    /\ slug' = [slug EXCEPT ![p] = None]
    /\ args' = [args EXCEPT ![p] = <<None, None>>]
    /\ UNCHANGED <<schema, pastes, connected, inserted, returned, calls, resp>>

\* -------------------------------------------------------------- get_paste
\* SELECT slug, title, content, created_at FROM pastes WHERE slug = ?
Select(s) == {i \in 1..Len(pastes) : pastes[i].slug = s}

\* the query without its WHERE clause: the first row, whatever the slug
get_pasteAnyRow(s) ==
    IF Len(pastes) = 0 THEN NotFound ELSE Paste(pastes[1])

\* row = cur.fetchone(); None if there is no row, else the Paste of the row
get_paste(s) ==
    IF Select(s) = {}
    THEN NotFound
    ELSE Paste(pastes[CHOOSE i \in Select(s) : \A j \in Select(s) : i <= j])

\* a get-or-create: a miss inserts an empty paste under the slug
GetPasteOrCreate(s) ==
    /\ calls < MaxCalls
    /\ calls' = calls + 1
    /\ resp' = [op |-> "get", slug |-> s, paste |-> get_paste(s)]
    /\ pastes' = IF Select(s) = {} THEN Insert(s, None, <<>>, 0) ELSE pastes
    /\ UNCHANGED <<schema, pc, title, content, attempt, slug, result, outcome,
                   args, connected, inserted, returned>>

GetPaste(s) ==
    /\ calls < MaxCalls
    /\ calls' = calls + 1
    /\ resp' = [op |-> "get", slug |-> s, paste |-> get_paste(s)]
    /\ UNCHANGED <<schema, pastes, pc, title, content, attempt, slug, result, outcome,
                   args, connected, inserted, returned>>

\* ------------------------------------------------------------ list_recent
\* ORDER BY id DESC: newest rowid first
OrderById ==
    {[i \in 1..Len(pastes) |-> Len(pastes) + 1 - i]}

\* ORDER BY created_at DESC: the orders of the rows SQL allows; rows with
\* equal created_at come in any order
OrderBy ==
    {f \in [1..Len(pastes) -> 1..Len(pastes)] :
        /\ \A i, j \in 1..Len(pastes) : i # j => f[i] # f[j]
        /\ \A i, j \in 1..Len(pastes) :
              i < j => pastes[f[i]].created_at >= pastes[f[j]].created_at}

\* LIMIT ?: SQLite reads a negative LIMIT as no limit
Limit(limit) ==
    IF limit < 0 \/ limit > Len(pastes) THEN Len(pastes) ELSE limit

\* every list the call can return
list_recent(limit) ==
    {[i \in 1..Limit(limit) |-> Paste(pastes[f[i]])] : f \in OrderBy}

ListRecent(limit) ==
    /\ calls < MaxCalls
    /\ calls' = calls + 1
    /\ \E res \in list_recent(limit) :
          resp' = [op |-> "list", limit |-> limit, pastes |-> res]
    /\ UNCHANGED <<schema, pastes, pc, title, content, attempt, slug, result, outcome,
                   args, connected, inserted, returned>>

\* ---------------------------------------------------- PasteRequestHandler
\* HTTPStatus
OK          == 200
SEE_OTHER   == 303
BAD_REQUEST == 400
NOT_FOUND   == 404

\* `if slug:` read as `if True:`
do_POSTAlwaysRedirect(res) ==
    [status |-> SEE_OTHER, location |-> <<"/">> \o res]

\* Lines 177-187: the response of do_POST on /create once create_paste has
\* returned res
do_POST(res) ==
    IF res # None /\ res # <<>>
    THEN [status |-> SEE_OTHER, location |-> <<"/">> \o res]
    ELSE [status |-> BAD_REQUEST]

\* str.encode("utf-8") on the characters the model uses: one byte each
Utf8 == [ch \in {" ", "c", "t"} |-> CASE ch = " " -> 32
                                       [] ch = "c" -> 99
                                       [] ch = "t" -> 116]

Encode(str) == [k \in 1..Len(str) |-> Utf8[str[k]]]

\* bytes.decode("utf-8"), what the client does with a text/plain body
Decode(bytes) ==
    [k \in 1..Len(bytes) |-> CHOOSE ch \in DOMAIN Utf8 : Utf8[ch] = bytes[k]]

\* str.startswith
StartsWith(str, prefix) ==
    /\ Len(str) >= Len(prefix)
    /\ SubSeq(str, 1, Len(prefix)) = prefix

\* str.lstrip("/")
RECURSIVE LStripSlash(_)
LStripSlash(str) ==
    IF str # <<>> /\ Head(str) = "/" THEN LStripSlash(Tail(str)) ELSE str

RawPrefix == <<"/", "r", "a", "w", "/">>

IndexHtml == <<"/", "i", "n", "d", "e", "x", ".", "h", "t", "m", "l">>

\* Lines 140-149, as far as the fields of the paste go into the page
render_paste_page(paste) ==
    [template |-> "paste.html",
     title |-> IF paste.title = None THEN paste.slug ELSE paste.title,
     slug |-> paste.slug,
     created_at |-> paste.created_at,
     content |-> paste.content]

\* Lines 206-216
_serve_raw(s) ==
    IF get_paste(s) = NotFound
    THEN [status |-> NOT_FOUND]
    ELSE [status |-> OK, type |-> "text/plain",
          body |-> Encode(get_paste(s).content)]

\* `slug = self.path` without the lstrip
do_GETNoLstrip(path) ==
    IF path = <<"/">> \/ path = IndexHtml
    THEN [status |-> OK, type |-> "text/html", page |-> [template |-> "index.html"]]
    ELSE IF StartsWith(path, RawPrefix)
    THEN _serve_raw(SubSeq(path, Len(RawPrefix) + 1, Len(path)))
    ELSE IF path # <<>> /\ get_paste(path) # NotFound
    THEN [status |-> OK, type |-> "text/html",
          page |-> render_paste_page(get_paste(path))]
    ELSE [status |-> NOT_FOUND]

\* Lines 155-172: the response of do_GET to a request for path
do_GET(path) ==
    IF path = <<"/">> \/ path = IndexHtml
    THEN [status |-> OK, type |-> "text/html", page |-> [template |-> "index.html"]]
    ELSE IF StartsWith(path, RawPrefix)
    THEN _serve_raw(SubSeq(path, Len(RawPrefix) + 1, Len(path)))
    ELSE IF LStripSlash(path) # <<>> /\ get_paste(LStripSlash(path)) # NotFound
    THEN [status |-> OK, type |-> "text/html",
          page |-> render_paste_page(get_paste(LStripSlash(path)))]
    ELSE [status |-> NOT_FOUND]

\* the URLs the pages link to
ViewPath(s) == <<"/">> \o s

RawPath(s) == RawPrefix \o s

\* what a client asks get_paste for: any slug, or a string that is no slug
LookupArgs == GenerateSlug \cup {<<"z">>}

Next ==
    \/ \E p \in Threads, t \in TitleArgs, c \in ContentArgs : Call(p, t, c)
    \/ \E p \in Threads, s \in GenerateSlug, t \in 0..MaxTime : Attempt(p, s, t)
    \/ \E p \in Threads : ReturnSlug(p)
    \/ \E p \in Threads : ReturnExhausted(p)
    \/ \E s \in LookupArgs : GetPaste(s)
    \/ \E limit \in -1..MaxLimit : ListRecent(limit)

Spec == Init /\ [][Next]_vars

\* the store on a storage that can fail
NextFault ==
    \/ Next
    \/ \E p \in Threads : Fault(p)

SpecFault == Init /\ [][NextFault]_vars

\* one step of the create_paste call thread p is in
Step(p) ==
    \/ \E s \in GenerateSlug, t \in 0..MaxTime : Attempt(p, s, t)
    \/ ReturnSlug(p)
    \/ ReturnExhausted(p)

\* create calls alone, on a store that starts empty
NextCreate ==
    \/ \E p \in Threads, t \in TitleArgs, c \in ContentArgs : Call(p, t, c)
    \/ \E p \in Threads : Step(p)

SpecCreate == Init /\ [][NextCreate]_vars

\* every request thread of the server keeps running
SpecLive == SpecCreate /\ \A p \in Threads : WF_vars(Step(p))

\* the paths clients request: the home page, and the view and raw paths of
\* every slug and of a string that is no slug
GetPaths ==
    {<<"/">>} \cup {ViewPath(s) : s \in LookupArgs}
              \cup {RawPath(s) : s \in LookupArgs}

\* one GET request, answered by do_GET on the store of that moment
DoGET(path) ==
    /\ calls < MaxCalls
    /\ calls' = calls + 1
    /\ resp' = [op |-> "GET", path |-> path, response |-> do_GET(path)]
    /\ UNCHANGED <<schema, pastes, pc, title, content, attempt, slug, result,
                   outcome, args, connected, inserted, returned>>

\* the server: POSTs that create pastes, GETs that read them
NextHttp ==
    \/ NextCreate
    \/ \E path \in GetPaths : DoGET(path)

SpecHttp == Init /\ [][NextHttp]_vars

\* the store with init_db run again at any point
NextInit ==
    \/ Next
    \/ InitDb

SpecInit == Init /\ [][NextInit]_vars

\* ===================================================================
\* Properties
\* ===================================================================

\* x is s without its leading and trailing whitespace (None reads as "")
TrimOf(s, x) ==
    LET u == IF s = None THEN <<>> ELSE s IN
    \E i \in 1..Len(u) + 1 : \E j \in 0..Len(u) :
        /\ x = SubSeq(u, i, j)
        /\ \A k \in 1..(i - 1) : u[k] \in Whitespace
        /\ \A k \in (j + 1)..Len(u) : u[k] \in Whitespace
        /\ x # <<>> => x[1] \notin Whitespace /\ x[Len(x)] \notin Whitespace

\* s is empty or whitespace-only
Blank(s) == s = None \/ \A k \in 1..Len(s) : s[k] \in Whitespace

\* C1: no two stored records share a slug, and the slugs returned by the
\* successful create calls are pairwise distinct, whatever candidates the
\* concurrent calls generate.
C1_SlugUniqueness ==
    /\ \A i, j \in 1..Len(pastes) : i # j => pastes[i].slug # pastes[j].slug
    /\ \A i, j \in 1..Len(returned) : i # j => returned[i][1] # returned[j][1]

\* two calls hold a committed row each at once, one of them after its
\* candidate collided
C1_Witness ==
    /\ \A p \in Threads : pc[p] = "return"
    /\ \E p \in Threads : attempt[p] >= 2

\* C2: after create returned slug s for (title, content), get(s) returns,
\* in every later state, the record of slug s with the trimmed content and
\* the trimmed title, the title absent when it trims to nothing.
C2_RoundTrip ==
    \A i \in 1..Len(returned) :
        LET s == returned[i][1]
            t == returned[i][2]
            c == returned[i][3]
            g == get_paste(s)
        IN  /\ g # NotFound
            /\ g.slug = s
            /\ TrimOf(c, g.content)
            /\ IF Blank(t) THEN g.title = None ELSE TrimOf(t, g.title)

\* get answers for a returned slug whose title and content were trimmed,
\* after a further create
C2_Witness ==
    /\ resp.op = "get"
    /\ resp.paste # NotFound
    /\ Len(pastes) = 2
    /\ \E i \in 1..Len(returned) :
          /\ returned[i] = <<resp.slug, <<"t", " ">>, <<" ", "c", " ">>>>
          /\ resp.paste.title = <<"t">>
          /\ resp.paste.content = <<"c">>

\* C3: create with empty or whitespace-only content returns EmptyContent
\* at once, whatever the title: no connection, no INSERT, the table as it was.
C3_Rejection ==
    [][\A p \in Threads, t \in TitleArgs, c \in ContentArgs :
          (Blank(c) /\ Call(p, t, c)) =>
              /\ outcome'[p] = "EmptyContent"
              /\ pc'[p] = "done"
              /\ ~connected'[p]
              /\ attempt'[p] = 0
              /\ inserted'[p] = 0
              /\ pastes' = pastes]_vars

\* a call was rejected while the table held a row
C3_Witness ==
    /\ \E p \in Threads : outcome[p] = "EmptyContent" /\ pc[p] = "done"
    /\ Len(pastes) >= 1

\* every slug of the slug space is stored
Saturated == \A s \in GenerateSlug : \E i \in 1..Len(pastes) : pastes[i].slug = s

\* C4: while every slug of the slug space is stored, a create call past its
\* content check leaves the table as it is and can only end with Exhausted,
\* after exactly MaxAttempts (10) INSERT attempts.
C4_Exhaustion ==
    [][\A p \in Threads :
          (Saturated /\ pc[p] = "loop") =>
              /\ pastes' = pastes
              /\ \/ pc'[p] = "loop" /\ attempt'[p] <= MaxAttempts
                 \/ /\ pc'[p] = "done"
                    /\ outcome'[p] = "Exhausted"
                    /\ attempt'[p] = MaxAttempts
                    /\ inserted'[p] = 0]_vars

\* a call ended Exhausted on a full table after its ten attempts
C4_Witness ==
    /\ Saturated
    /\ \E p \in Threads :
          /\ pc[p] = "done"
          /\ outcome[p] = "Exhausted"
          /\ attempt[p] = MaxAttempts
          /\ inserted[p] = 0

\* C5: the value create returns when the retry budget is exhausted differs
\* from the value it returns for empty content.
C5_Distinguishable ==
    \A p \in Threads :
        (pc[p] = "done" /\ outcome[p] = "Exhausted") =>
            result[p] # EmptyContentResult

ReturnedSlugs == {returned[i][1] : i \in 1..Len(returned)}

\* C6, as claimed: get(s) finds a record exactly for the slugs some create
\* call has returned so far.
C6_NotFoundUnlessReturned ==
    \A s \in LookupArgs :
        /\ s \in ReturnedSlugs => get_paste(s) # NotFound
        /\ s \notin ReturnedSlugs => get_paste(s) = NotFound

\* C6, amended: get(s) finds a record for every slug a create call has
\* returned, and finds none unless s was returned or is the slug a call has
\* committed and is about to return.
C6_NotFoundUnlessCommitted ==
    \A s \in LookupArgs :
        /\ s \in ReturnedSlugs => get_paste(s) # NotFound
        /\ get_paste(s) # NotFound =>
              \/ s \in ReturnedSlugs
              \/ \E p \in Threads : pc[p] = "return" /\ slug[p] = s

\* get found the row of a call that has not returned yet, and missed a slug
\* nobody stored
C6_Witness ==
    /\ resp.op = "get"
    /\ resp.paste # NotFound
    /\ resp.slug \notin ReturnedSlugs
    /\ \E p \in Threads : pc[p] = "return" /\ slug[p] = resp.slug
    /\ \E s \in GenerateSlug : get_paste(s) = NotFound

DistinctTimes ==
    \A i, j \in 1..Len(pastes) :
        i # j => pastes[i].created_at # pastes[j].created_at

StoredPastes == {Paste(pastes[i]) : i \in 1..Len(pastes)}

Min(a, b) == IF a < b THEN a ELSE b

C8_Immutability ==
    [][/\ Len(pastes') >= Len(pastes)
       /\ \A i \in 1..Len(pastes) : pastes'[i] = pastes[i]]_vars

\* the table holds two records and both kinds of read have been served
C8_Witness ==
    /\ Len(pastes) = 2
    /\ pastes[1].title # pastes[2].title
    /\ resp.op = "list"
    /\ Len(resp.pastes) = 2

\* C9: get and list_recent leave the table as it is, whatever they are
\* asked and whatever they answer.
C9_ReadOnly ==
    [][\/ pastes' = pastes
       \/ ~ \/ \E s \in LookupArgs : GetPaste(s)
            \/ \E limit \in -1..MaxLimit : ListRecent(limit)]_vars

\* a get that missed, on a table that holds a record
C9_Witness ==
    /\ resp.op = "get"
    /\ resp.paste = NotFound
    /\ Len(pastes) >= 1

\* C10: every stored record has a slug of length SLUG_LENGTH over
\* SLUG_ALPHABET, a non-empty content equal to its own trim, and a title that
\* is absent or a non-empty string equal to its own trim.
C10_WellFormed ==
    \A i \in 1..Len(pastes) :
        LET r == pastes[i] IN
        /\ Len(r.slug) = SLUG_LENGTH
        /\ \A k \in 1..Len(r.slug) : r.slug[k] \in SLUG_ALPHABET
        /\ r.content # None
        /\ r.content # <<>>
        /\ TrimOf(r.content, r.content)
        /\ \/ r.title = None
           \/ r.title # <<>> /\ TrimOf(r.title, r.title)

\* one record stored without a title, one with a trimmed title
C10_Witness ==
    /\ \E i \in 1..Len(pastes) : pastes[i].title = None
    /\ \E i \in 1..Len(pastes) : pastes[i].title = <<"t">>

\* C11: a storage fault other than the uniqueness violation, raised during
\* an insertion attempt, ends the call at once: no further attempt, no
\* record persisted, and an outcome that is neither a slug nor the value of
\* EmptyContent or of Exhausted.
C11_FaultNotRetried ==
    [][\A p \in Threads :
          Fault(p) =>
              /\ pc'[p] = "done"
              /\ outcome'[p] = "OperationalError"
              /\ pastes' = pastes
              /\ inserted'[p] = 0
              /\ result'[p] \notin GenerateSlug \cup {None, EmptyContentResult}
              /\ attempt'[p] = attempt[p] + 1]_vars

\* a call ended by a fault on its second attempt, the table holding a row
C11_Witness ==
    \E p \in Threads :
        /\ pc[p] = "done"
        /\ outcome[p] = "OperationalError"
        /\ attempt[p] = 2
        /\ inserted[p] = 0
        /\ Len(pastes) >= 1

\* C12: a POST to /create answers with a redirect exactly when the request
\* persisted one new record, the Location being "/" followed by that record's
\* slug; when create ends with EmptyContent or Exhausted the answer is a
\* client error without a slug and the request has inserted nothing.
C12_CreateBoundary ==
    \A p \in Threads :
        (pc[p] = "done" /\ outcome[p] \in {"slug", "EmptyContent", "Exhausted"}) =>
            LET r == do_POST(result[p]) IN
            /\ r.status = SEE_OTHER <=> inserted[p] = 1
            /\ r.status = SEE_OTHER =>
                  /\ outcome[p] = "slug"
                  /\ \E i \in 1..Len(pastes) :
                        r.location = <<"/">> \o pastes[i].slug
                  /\ \E i \in 1..Len(returned) :
                        r.location = <<"/">> \o returned[i][1]
            /\ outcome[p] \in {"EmptyContent", "Exhausted"} =>
                  /\ r.status \in 400..499
                  /\ DOMAIN r = {"status"}
                  /\ inserted[p] = 0

\* one request was redirected to its new paste, another was refused
C12_Witness ==
    /\ \E p \in Threads :
          /\ pc[p] = "done" /\ outcome[p] = "slug"
          /\ do_POST(result[p]) = [status |-> SEE_OTHER,
                                    location |-> <<"/">> \o pastes[1].slug]
    /\ \E p \in Threads :
          /\ pc[p] = "done" /\ outcome[p] = "EmptyContent"
          /\ do_POST(result[p]) = [status |-> BAD_REQUEST]

\* C13: init_db on an initialized store leaves every stored record and the
\* declared table, with its UNIQUE constraint on slug, as they are, and running
\* it twice gives what running it once gives, on an initialized store and on
\* a new file alike.
C13_InitDbIdempotent ==
    LET db == [schema |-> schema, rows |-> pastes] IN
    /\ init_db(db) = db
    /\ init_db(init_db(db)) = init_db(db)
    /\ init_db(init_db(NoDb)) = init_db(NoDb)
    /\ schema = {PastesTable}
    /\ "slug" \in PastesTable.unique
    /\ resp.op = "init" =>
          \A i \in 1..Len(returned) :
              \E j \in 1..Len(pastes) : pastes[j].slug = returned[i][1]

\* init_db has just run on a store that holds the records of two creates
C13_Witness ==
    /\ resp.op = "init"
    /\ Len(pastes) = 2
    /\ Len(returned) = 2

\* C14: a create call never makes more than 10 insertion attempts, makes none
\* after one has succeeded, so that it inserts at most one record, and every
\* call that has entered the loop ends.
C14_BoundedRetry ==
    /\ [](\A p \in Threads :
            /\ attempt[p] \in 0..MaxAttempts
            /\ inserted[p] \in 0..1
            /\ inserted[p] = 1 => pc[p] \in {"return", "done"}
            /\ pc[p] = "return" =>
                  \A s \in GenerateSlug, t \in 0..MaxTime : ~ ENABLED Attempt(p, s, t))
    /\ \A p \in Threads : (pc[p] \in {"loop", "return"}) ~> (pc[p] = "done")

\* a call has ended after ten attempts, another after the first
C14_Witness ==
    /\ \E p \in Threads : pc[p] = "done" /\ outcome[p] = "Exhausted"
    /\ Len(returned) = 2
    /\ Len(pastes) = 2

\* C15: an insertion attempt with a candidate that is stored at that moment
\* leaves the store as it is and the call goes on to its next candidate; an
\* attempt with a candidate that is absent stores it and ends the loop, so the
\* slug returned is the call's first candidate that was absent at its attempt
\* (all earlier ones were stored); the call returns Exhausted only after 10
\* attempts that all met a stored candidate.
C15_CollisionRetry ==
    [][\A p \in Threads :
          /\ \A s \in GenerateSlug, t \in 0..MaxTime :
                Attempt(p, s, t) =>
                    /\ inserted[p] = 0
                    /\ Select(s) # {} =>
                          /\ pastes' = pastes
                          /\ pc'[p] = "loop"
                          /\ inserted'[p] = 0
                          /\ attempt'[p] = attempt[p] + 1
                    /\ Select(s) = {} =>
                          /\ Len(pastes') = Len(pastes) + 1
                          /\ pastes'[Len(pastes')].slug = s
                          /\ pc'[p] = "return"
                          /\ slug'[p] = s
          /\ ReturnSlug(p) =>
                /\ result'[p] = slug[p]
                /\ inserted[p] = 1
                /\ attempt[p] \in 1..MaxAttempts
          /\ ReturnExhausted(p) =>
                /\ attempt[p] = MaxAttempts
                /\ inserted[p] = 0]_vars

\* a call has returned the slug of its second candidate, the first having
\* been stored before by another call
C15_Witness ==
    \E p \in Threads :
        /\ pc[p] = "return"
        /\ attempt[p] = 2
        /\ inserted[p] = 1
        /\ Len(pastes) = 2
        /\ pastes[2].slug = slug[p]

\* C16: when two create calls in progress try the same candidate, the first
\* insertion succeeds and the second is refused: it changes nothing, the call
\* stays in its loop for another candidate, and the row under that slug keeps
\* the title and content of the call that inserted it; no two calls come out
\* of their loops with the same slug.
C16_SameCandidateRace ==
    /\ [](\A p \in Threads :
            pc[p] = "return" =>
                /\ \E i \in 1..Len(pastes) : Select(slug[p]) = {i}
                /\ \A i \in Select(slug[p]) :
                      /\ pastes[i].title = title[p]
                      /\ pastes[i].content = content[p]
                /\ \A q \in Threads \ {p} :
                      pc[q] = "return" => slug[q] # slug[p])
    /\ [][\A p \in Threads, q \in Threads :
            (p # q /\ pc[p] = "return") =>
                \A t \in 0..MaxTime :
                    Attempt(q, slug[p], t) =>
                        /\ pastes' = pastes
                        /\ inserted'[q] = 0
                        /\ pc'[q] = "loop"
                        /\ attempt'[q] = attempt[q] + 1]_vars

\* two calls with different titles tried the same candidate: one inserted
\* it, the other was refused and is in its loop
C16_Witness ==
    \E p \in Threads, q \in Threads :
        /\ pc[p] = "return" /\ pc[q] = "loop"
        /\ title[p] # title[q]
        /\ attempt[q] = 1 /\ inserted[q] = 0
        /\ Len(pastes) = 1
        /\ pastes[1].slug = slug[p]
        /\ pastes[1].title = title[p]

Max(a, b) == IF a > b THEN a ELSE b

\* C17: for every integer limit, 0 and negative values included, and every
\* store state, list_recent(limit) returns at most max(limit, 0) records.
C17_BoundedByLimit ==
    resp.op = "list" => Len(resp.pastes) <= Max(resp.limit, 0)

\* slug, content and created_at of a returned record are populated
Complete(r) ==
    /\ r.slug \in GenerateSlug
    /\ r.content \notin {None, <<>>}
    /\ r.created_at \in 0..MaxTime

\* r is the record of one of the first n rows of the table, which a create
\* call inserted and then returned or is about to return
InStoreAt(r, n) ==
    \E i \in 1..n :
        /\ r = [slug |-> pastes[i].slug, title |-> pastes[i].title,
                content |-> pastes[i].content,
                created_at |-> pastes[i].created_at]
        /\ \/ r.slug \in ReturnedSlugs
           \/ \E p \in Threads : pc[p] = "return" /\ slug[p] = r.slug

\* C18: with create calls running on other threads, failing ones included,
\* every record a get or a list_recent has returned is complete and is a row
\* of the store as it was at one instant (the table is append-only, so that
\* store is a prefix of the present table); a list holds distinct rows of that
\* one store, as many as its limit admits; no returned record comes from a
\* call that failed.
C18_SnapshotReads ==
    /\ resp.op = "get" =>
          \/ resp.paste = NotFound
          \/ /\ resp.paste.slug = resp.slug
             /\ Complete(resp.paste)
             /\ InStoreAt(resp.paste, Len(pastes))
    /\ resp.op = "list" =>
          \E n \in 0..Len(pastes) :
              /\ Len(resp.pastes) =
                    IF resp.limit < 0 \/ resp.limit > n THEN n ELSE resp.limit
              /\ \A i \in 1..Len(resp.pastes) :
                    /\ Complete(resp.pastes[i])
                    /\ InStoreAt(resp.pastes[i], n)
              /\ \A i, j \in 1..Len(resp.pastes) :
                    i # j => resp.pastes[i].slug # resp.pastes[j].slug

\* a list has returned the record of a create call that has committed and
\* not yet returned, while another call has failed on a storage fault
C18_Witness ==
    /\ resp.op = "list"
    /\ Len(resp.pastes) = 1
    /\ \E p \in Threads : pc[p] = "return" /\ slug[p] = resp.pastes[1].slug
    /\ \E p \in Threads : pc[p] = "done" /\ outcome[p] = "OperationalError"

StoredSlugs == {pastes[i].slug : i \in 1..Len(pastes)}

\* the calls that have committed a row and not yet returned its slug
Returning == {p \in Threads : pc[p] = "return"}

\* C19: starting from the empty store, under every interleaving of create
\* calls, once no call is in progress the number of rows equals the number of
\* calls that returned a slug and the stored slugs are the returned slugs;
\* while calls are in progress the difference is the calls that have
\* committed and are about to return; a call that ended with EmptyContent or
\* Exhausted has inserted nothing.
C19_RecordAccounting ==
    /\ Len(pastes) = Len(returned) + Cardinality(Returning)
    /\ StoredSlugs = ReturnedSlugs \cup {slug[p] : p \in Returning}
    /\ Returning = {} =>
          /\ Len(pastes) = Len(returned)
          /\ Cardinality(StoredSlugs) = Len(pastes)
          /\ StoredSlugs = ReturnedSlugs
    /\ \A p \in Threads :
          (pc[p] = "done" /\ outcome[p] \in {"EmptyContent", "Exhausted"}) =>
              inserted[p] = 0

\* three calls are over: two returned the two stored slugs, one was refused
C19_Witness ==
    /\ \A p \in Threads : pc[p] = "done"
    /\ calls = 3
    /\ Len(pastes) = 2
    /\ Len(returned) = 2
    /\ \E p \in Threads : outcome[p] = "EmptyContent"

\* the content stored under slug s
StoredContent(s) == pastes[CHOOSE i \in Select(s) : TRUE].content

\* C20: for every slug, GET of its view path and GET of its raw path answer
\* not-found exactly when no stored record has that slug, and answer OK
\* otherwise; the body of the raw answer is the stored content, byte for
\* byte; a GET request leaves the store as it is.
C20_ReadBoundary ==
    /\ [](\A s \in GenerateSlug :
            /\ do_GET(ViewPath(s)).status = NOT_FOUND <=> Select(s) = {}
            /\ do_GET(RawPath(s)).status = NOT_FOUND <=> Select(s) = {}
            /\ Select(s) # {} =>
                  /\ do_GET(ViewPath(s)).status = OK
                  /\ do_GET(ViewPath(s)).page.slug = s
                  /\ do_GET(RawPath(s)).status = OK
                  /\ do_GET(RawPath(s)).body = Encode(StoredContent(s))
                  /\ Decode(do_GET(RawPath(s)).body) = StoredContent(s))
    /\ [][\A path \in GetPaths :
            DoGET(path) =>
                /\ pastes' = pastes
                /\ schema' = schema
                /\ resp'.response = do_GET(path)]_vars

\* a GET of a stored slug's raw path was answered with the content, after
\* the other slug had been looked for in vain
C20_Witness ==
    /\ resp.op = "GET"
    /\ \E s \in GenerateSlug :
          /\ resp.path = RawPath(s)
          /\ resp.response.status = OK
          /\ Decode(resp.response.body) = <<"c">>
    /\ \E s \in GenerateSlug : do_GET(ViewPath(s)).status = NOT_FOUND
    /\ \E s \in GenerateSlug : do_GET(ViewPath(s)).status = OK

====
